---- MODULE Spec2Model ----
(***************************************************************************)
(* MetalText YOLOv8 detection API (main.py): the POST /predict handler     *)
(* predict_image, run as coroutines on one event loop.                     *)
(*                                                                         *)
(* Units: detector coordinates and drawing coordinates are in tenths of a  *)
(* pixel (floats with one decimal); integer pixel values carry no suffix.  *)
(* Confidences are in thousandths; reported confidences in hundredths.     *)
(***************************************************************************)
EXTENDS Integers, Sequences, FiniteSets, TLC

\* ---- bounds of the model ------------------------------------------------
NumRequests == 2
MaxBoxes == 2

Requests == 1..NumRequests

\* ---- program constants ---------------------------------------------------
CLASS_NAMES_CONFIG == <<"text", "metal">>
font_size_on_image == 24

\* ---- strings as character sequences (content types) ----------------------
ImagePrefix == <<"i", "m", "a", "g", "e", "/">>

\* str.startswith
StartsWith(s, p) == Len(s) >= Len(p) /\ SubSeq(s, 1, Len(p)) = p

\* UploadFile.content_type: the part's declared Content-Type, or None.
ImagePng == [declared |-> TRUE, value |-> <<"i", "m", "a", "g", "e", "/", "p", "n", "g">>]
TextPlain == [declared |-> TRUE, value |-> <<"t", "e", "x", "t", "/", "p", "l", "a", "i", "n">>]
NoContentType == [declared |-> FALSE, value |-> <<>>]
ContentTypes == {ImagePng, TextPlain, NoContentType}
NotSent == [declared |-> FALSE, value |-> <<"-">>]

\* ---- the process-wide detector handle ------------------------------------
\* model.names: empty, or a catalog that knows ids 0 and 2 and misses id 1.
EmptyNames == [i \in {} |-> ""]
PartialNames == (0 :> "text" @@ 2 :> "rust")
Catalogs == {EmptyNames, PartialNames}

\* model = None (file missing or load failed) or a YOLO handle with .names
Models == {[loaded |-> FALSE, names |-> EmptyNames]}
            \cup {[loaded |-> TRUE, names |-> c] : c \in Catalogs}

\* ---- the Pillow build the process imports --------------------------------
\* textlength:      hasattr(draw, 'textlength')            (Pillow >= 8.0)
\* bitmap_getbbox:  hasattr(ImageFont.ImageFont, 'getbbox') (Pillow >= 9.2)
\* strict_rect:     ImageDraw.rectangle raises ValueError when y1 < y0
\*                  or x1 < x0                              (Pillow >= 9.5)
\* freetype:        the _imagingft module is present
PillowBuilds ==
    { [textlength |-> FALSE, bitmap_getbbox |-> FALSE, strict_rect |-> FALSE, freetype |-> TRUE],
      [textlength |-> TRUE,  bitmap_getbbox |-> FALSE, strict_rect |-> FALSE, freetype |-> TRUE],
      [textlength |-> TRUE,  bitmap_getbbox |-> TRUE,  strict_rect |-> FALSE, freetype |-> TRUE],
      [textlength |-> TRUE,  bitmap_getbbox |-> TRUE,  strict_rect |-> TRUE,  freetype |-> TRUE],
      [textlength |-> TRUE,  bitmap_getbbox |-> TRUE,  strict_rect |-> TRUE,  freetype |-> FALSE] }

VARIABLES
    model,            \* the global detector handle
    pil,              \* the imported Pillow build
    pc,               \* per request: position of its coroutine
    content_type,     \* per request: file.content_type
    status,           \* per request: HTTP status of its response, 0 before
    invoked,          \* per request: model.predict was called for it
    busy,             \* the event loop is executing a coroutine
    current,          \* the request whose frame the locals below belong to
    image_bytes,      \* local: the uploaded bytes
    original_mode,    \* local
    img,              \* local: the image handed to the detector
    results,          \* local: result.boxes of results[0]
    font,             \* local
    predictions_data, \* local
    annotated_img     \* local

vars == <<model, pil, pc, content_type, status, invoked, busy, current,
          image_bytes, original_mode, img, results, font, predictions_data,
          annotated_img>>

frame == <<image_bytes, original_mode, img, results, font, predictions_data,
           annotated_img>>

\* ---- images ---------------------------------------------------------------
Modes == {"RGB", "RGBA", "P", "L", "LA", "CMYK"}
NoImage == [mode |-> "", size |-> <<0, 0>>]

\* The uploaded bytes: an encoded image of some mode and size, or bytes that
\* PIL cannot identify (Image.open raises UnidentifiedImageError).
Garbage == [decodable |-> FALSE, mode |-> "", size |-> <<0, 0>>]
SizeOf(m) == IF m \in {"RGB", "P", "LA"} THEN <<40, 40>> ELSE <<64, 48>>
Bodies == {Garbage} \cup {[decodable |-> TRUE, mode |-> m, size |-> SizeOf(m)] : m \in Modes}

\* Image.convert: a new image of the given mode, same size.
Convert(im, mode) == [im EXCEPT !.mode = mode]

\* A plausible slip: grayscale sent down the 3-channel branch.
NormalizeGrayAsRGB(im) ==
    IF im.mode \notin {"RGB", "RGBA"}
    THEN IF im.mode \in {"P", "LA"} THEN Convert(im, "RGBA") ELSE Convert(im, "RGB")
    ELSE im

Normalize(im) ==
    IF im.mode \notin {"RGB", "RGBA"}
    THEN IF im.mode \in {"P", "LA", "L"} THEN Convert(im, "RGBA") ELSE Convert(im, "RGB")
    ELSE im

\* ---- request validation (before the try block) ----------------------------
\* A plausible slip: the model check raised inside the try block, so that the
\* blanket handler turns it into 500.
ValidateModelCheckInsideTry(ct) ==
    IF ~model.loaded THEN 500
    ELSE IF ~ct.declared THEN 500
    ELSE IF ~StartsWith(ct.value, ImagePrefix) THEN 400
    ELSE 0

\* A plausible slip: the content-type test dropped.
ValidateNoTypeCheck(ct) ==
    IF ~model.loaded THEN 503
    ELSE IF ~ct.declared THEN 500
    ELSE 0

\* The status the handler raises before reading the body, 0 when it goes on.
\* content_type None: None.startswith raises AttributeError outside the try
\* block, which the server answers with 500.
Validate(ct) ==
    IF ~model.loaded THEN 503
    ELSE IF ~ct.declared THEN 500
    ELSE IF ~StartsWith(ct.value, ImagePrefix) THEN 400
    ELSE 0

\* ---- the detector's output --------------------------------------------------
\* box.xyxy in tenths of a pixel, box.conf in thousandths, box.cls.  Every box
\* lies inside the 40x40 corner of the image with x1 < x2 and y1 < y2.
Detections ==
    { [xyxy |-> <<100, 250, 300, 350>>, conf |-> 996, cls |-> 0],
      [xyxy |-> <<102, 50, 108, 90>>,   conf |-> 500, cls |-> 1],
      [xyxy |-> <<0, 200, 400, 400>>,   conf |-> 250, cls |-> 2] }

BoundedSeq(S, n) == UNION {[1..k -> S] : k \in 0..n}

\* model.predict(source=img): one Results object for the one image.
PredictOutputs == {<<[boxes |-> b]>> : b \in BoundedSeq(Detections, MaxBoxes)}

\* int(): truncation toward zero of a value in tenths
PyInt(v) == IF v >= 0 THEN v \div 10 ELSE -((-v) \div 10)

\* round(conf, 2): thousandths to hundredths, ties to even
Round2(k) ==
    LET q == k \div 10
        rem == k % 10
    IN IF rem > 5 \/ (rem = 5 /\ q % 2 = 1) THEN q + 1 ELSE q

\* int(conf * 100)
ConfPercentage(k) == (k * 100) \div 1000

IdName(cls_id) == "ID_" \o ToString(cls_id)

\* A plausible slip: the configured list consulted when the catalog misses.
ClassNameConfigOnMiss(names, cls_id) ==
    IF DOMAIN names # {} /\ cls_id \in DOMAIN names THEN names[cls_id]
    ELSE IF 0 <= cls_id /\ cls_id < Len(CLASS_NAMES_CONFIG)
         THEN CLASS_NAMES_CONFIG[cls_id + 1]
         ELSE IdName(cls_id)

\* class_name_to_display
ClassName(names, cls_id) ==
    IF DOMAIN names # {}
    THEN IF cls_id \in DOMAIN names THEN names[cls_id] ELSE IdName(cls_id)
    ELSE IF 0 <= cls_id /\ cls_id < Len(CLASS_NAMES_CONFIG)
         THEN CLASS_NAMES_CONFIG[cls_id + 1]
         ELSE IdName(cls_id)

\* text_label_on_image
TextLabel(class_name, pct) == class_name \o " " \o ToString(pct) \o "%"

\* The record appended to predictions_data for one box.
PredictionRecord(names, box) ==
    [class_id   |-> box.cls,
     class_name |-> ClassName(names, box.cls),
     confidence |-> Round2(box.conf),
     bbox       |-> <<PyInt(box.xyxy[1]), PyInt(box.xyxy[2]), PyInt(box.xyxy[3]), PyInt(box.xyxy[4])>>]

\* ---- fonts and text metrics ----------------------------------------------------
Arial == [name |-> "arial.ttf", kind |-> "freetype"]
DejaVu == [name |-> "DejaVuSans.ttf", kind |-> "freetype"]
DefaultFont == [name |-> "default", kind |-> "bitmap"]
NoFont == [name |-> "", kind |-> ""]

\* The try / except IOError chain: arial.ttf, then DejaVuSans.ttf, then
\* ImageFont.load_default().
ResolveFont(arial_found, dejavu_found) ==
    IF arial_found THEN Arial ELSE IF dejavu_found THEN DejaVu ELSE DefaultFont

\* draw.textlength / draw.textsize width, font.getbbox height, in tenths.
TextWidth(f) == IF f.kind = "freetype" THEN 1000 ELSE 540
TextHeight(f) == IF f.kind = "freetype" THEN 220 ELSE 110

\* hasattr(font, 'getbbox'): FreeTypeFont has it wherever draw.textlength
\* exists; the bitmap ImageFont only in later builds.
FontHasGetbbox(build, f) == f.kind = "freetype" \/ build.bitmap_getbbox

\* hasattr(font, 'getmetrics'): FreeTypeFont only.
FontHasGetmetrics(f) == f.kind = "freetype"

\* The measuring part of the try block.  font.getmetrics() returns the pair
\* (ascent, descent); unpacking it into four names raises ValueError.
Measure(build, f) ==
    IF build.textlength
    THEN IF FontHasGetbbox(build, f)
         THEN IF FontHasGetmetrics(f)
              THEN [raised |-> TRUE, text_w |-> TextWidth(f), text_h |-> 0, tier |-> "fallback"]
              ELSE [raised |-> FALSE, text_w |-> TextWidth(f), text_h |-> TextHeight(f),
                    tier |-> "precise"]
         ELSE [raised |-> FALSE, text_w |-> TextWidth(f),
               text_h |-> font_size_on_image * 12, tier |-> "approx"]
    ELSE [raised |-> FALSE, text_w |-> TextWidth(f), text_h |-> TextHeight(f),
          tier |-> "textsize"]

\* text_bg_coords and text_y_position for a box whose top-left is (x1, y1) px.
TextLayout(build, f, x1, y1) ==
    LET m == Measure(build, f)
        X == x1 * 10
        Y == y1 * 10
    IN IF m.raised
       THEN LET y == IF Y - 200 > 0 THEN Y - 200 ELSE Y + 20
            IN [tier |-> m.tier, text_bg_coords |-> <<X, y, X + 800, Y>>,
                text_y_position |-> y]
       ELSE LET text_bg_height == m.text_h + 40
                y == IF Y - text_bg_height < 0 THEN Y + 20 ELSE Y - text_bg_height
            IN [tier |-> m.tier,
                text_bg_coords |-> <<X, y, X + m.text_w + 40, y + text_bg_height>>,
                text_y_position |-> y]

\* ImageDraw.rectangle(xy) raises ValueError on a strict build when the second
\* corner lies above or left of the first.
RectangleRaises(build, xy) == build.strict_rect /\ (xy[3] < xy[1] \/ xy[4] < xy[2])

\* A plausible variant: a colour chosen by class.
BoxColourByClass(class_name) == IF class_name = "text" THEN "lime" ELSE "red"

\* outline= of the box rectangle and fill= of the label rectangle
BoxColour(class_name) == "red"

\* fill= of draw.text
TextColour(class_name) == "white"

\* What the three draw calls of one box put on the image: the outlined box,
\* the filled label background and the label text.
Annotation(build, f, rec, box) ==
    LET lay == TextLayout(build, f, rec.bbox[1], rec.bbox[2])
    IN [box        |-> <<rec.bbox[1] * 10, rec.bbox[2] * 10, rec.bbox[3] * 10, rec.bbox[4] * 10>>,
        outline    |-> BoxColour(rec.class_name),
        label_bg   |-> lay.text_bg_coords,
        label_fill |-> BoxColour(rec.class_name),
        text       |-> TextLabel(rec.class_name, ConfPercentage(box.conf)),
        text_xy    |-> <<rec.bbox[1] * 10 + 20, lay.text_y_position + 20>>,
        text_fill  |-> TextColour(rec.class_name)]

\* ---- the state machine ------------------------------------------------------------
NoImageDrawn == [mode |-> "", size |-> <<0, 0>>, annotations |-> <<>>]

Init ==
    /\ model \in Models
    /\ pil \in PillowBuilds
    /\ pc = [r \in Requests |-> "idle"]
    /\ content_type = [r \in Requests |-> NotSent]
    /\ status = [r \in Requests |-> 0]
    /\ invoked = [r \in Requests |-> FALSE]
    /\ busy = FALSE
    /\ current = 0
    /\ image_bytes = Garbage
    /\ original_mode = ""
    /\ img = NoImage
    /\ results = <<>>
    /\ font = NoFont
    /\ predictions_data = <<>>
    /\ annotated_img = NoImageDrawn

\* Requests are numbered in their order of arrival.
\* The handler is entered and runs to its first await: the two checks before
\* the try block, then await file.read() suspends the coroutine.
Receive(r) ==
    /\ ~busy
    /\ pc[r] = "idle"
    /\ \A q \in Requests : q < r => pc[q] # "idle"
    /\ \E ct \in ContentTypes :
         /\ content_type' = [content_type EXCEPT ![r] = ct]
         /\ IF Validate(ct) = 0
            THEN /\ pc' = [pc EXCEPT ![r] = "reading"]
                 /\ UNCHANGED status
            ELSE /\ pc' = [pc EXCEPT ![r] = "responded"]
                 /\ status' = [status EXCEPT ![r] = Validate(ct)]
    /\ UNCHANGED <<model, pil, invoked, busy, current, frame>>

\* The except Exception handler: HTTPException(500); the coroutine ends.
Raise500(r) ==
    /\ pc' = [pc EXCEPT ![r] = "responded"]
    /\ status' = [status EXCEPT ![r] = 500]
    /\ busy' = FALSE

\* file.read() completes and the loop resumes the coroutine: Image.open and
\* the mode normalisation.
ReadDone(r) ==
    /\ ~busy
    /\ pc[r] = "reading"
    /\ \E body \in Bodies :
         /\ image_bytes' = body
         /\ current' = r
         /\ results' = <<>>
         /\ font' = NoFont
         /\ predictions_data' = <<>>
         /\ annotated_img' = NoImageDrawn
         /\ IF body.decodable
            THEN /\ original_mode' = body.mode
                 /\ img' = Normalize([mode |-> body.mode, size |-> body.size])
                 /\ pc' = [pc EXCEPT ![r] = "predict"]
                 /\ busy' = TRUE
                 /\ UNCHANGED status
            ELSE /\ original_mode' = ""
                 /\ img' = NoImage
                 /\ Raise500(r)
    /\ UNCHANGED <<model, pil, content_type, invoked>>

\* model.predict returns; the copy is forced to RGBA and the font resolved.
\* Without FreeType, ImageFont.truetype raises ImportError, which except
\* IOError does not catch.
Predict(r) ==
    /\ busy /\ current = r
    /\ pc[r] = "predict"
    /\ invoked' = [invoked EXCEPT ![r] = TRUE]
    /\ \E out \in PredictOutputs : results' = out
    /\ annotated_img' = [mode |-> "RGBA", size |-> img.size, annotations |-> <<>>]
    /\ IF pil.freetype
       THEN /\ \E arial_found, dejavu_found \in BOOLEAN :
                 font' = ResolveFont(arial_found, dejavu_found)
            /\ pc' = [pc EXCEPT ![r] = "boxes"]
            /\ UNCHANGED <<status, busy>>
       ELSE /\ font' = NoFont
            /\ Raise500(r)
    /\ UNCHANGED <<model, pil, content_type, current, image_bytes, original_mode,
                   img, predictions_data>>

\* model.predict raises (any failure inside the detector).
PredictFails(r) ==
    /\ busy /\ current = r
    /\ pc[r] = "predict"
    /\ invoked' = [invoked EXCEPT ![r] = TRUE]
    /\ Raise500(r)
    /\ UNCHANGED <<model, pil, content_type, current, frame>>

\* One iteration of the loop over result.boxes: the record of the box is
\* appended, then the three draw calls run, unless one of the rectangles raises.
BoxStep(build, f, names, acc, box) ==
    LET rec == PredictionRecord(names, box)
        ann == Annotation(build, f, rec, box)
        raised == RectangleRaises(build, ann.box) \/ RectangleRaises(build, ann.label_bg)
    IN [predictions_data |-> Append(acc.predictions_data, rec),
        annotations |-> IF raised THEN acc.annotations ELSE Append(acc.annotations, ann),
        raised |-> raised]

RECURSIVE BoxLoopFrom(_, _, _, _, _, _)
BoxLoopFrom(build, f, names, boxes, i, acc) ==
    IF i > Len(boxes) \/ acc.raised
    THEN acc
    ELSE BoxLoopFrom(build, f, names, boxes, i + 1,
                     BoxStep(build, f, names, acc, boxes[i]))

\* if results and len(results) > 0: the loop over results[0].boxes, run to its
\* end or to the first draw call that raises.
BoxLoop(build, f, names, res) ==
    BoxLoopFrom(build, f, names, IF Len(res) > 0 THEN res[1].boxes ELSE <<>>, 1,
                [predictions_data |-> <<>>, annotations |-> <<>>, raised |-> FALSE])

\* The rest of the try block, with no await in it: the box loop, then PNG,
\* base64 and the JSONResponse; or the except handler.
AnnotateAndRespond(r) ==
    /\ busy /\ current = r
    /\ pc[r] = "boxes"
    /\ \E out \in {BoxLoop(pil, font, model.names, results)} :
          /\ predictions_data' = out.predictions_data
          /\ annotated_img' = [annotated_img EXCEPT !.annotations = out.annotations]
          /\ IF out.raised
             THEN Raise500(r)
             ELSE /\ pc' = [pc EXCEPT ![r] = "responded"]
                  /\ status' = [status EXCEPT ![r] = 200]
                  /\ busy' = FALSE
    /\ UNCHANGED <<model, pil, content_type, invoked, current, image_bytes,
                   original_mode, img, results, font>>

Next ==
    \E r \in Requests :
        \/ Receive(r)
        \/ ReadDone(r)
        \/ Predict(r)
        \/ PredictFails(r)
        \/ AnnotateAndRespond(r)

Spec == Init /\ [][Next]_vars

\* ---- properties ---------------------------------------------------------------------
DeclaredImage(ct) == ct.declared /\ StartsWith(ct.value, ImagePrefix)
DeclaredNonImage(ct) == ct.declared /\ ~StartsWith(ct.value, ImagePrefix)
Boxes == IF Len(results) > 0 THEN results[1].boxes ELSE <<>>
Annotations == annotated_img.annotations

\* C1: with the detector not loaded, every request whose file is declared as an
\* image is answered with 503 (never 500) and model.predict is not called for it.
C1_Unavailable503 ==
    \A r \in Requests :
        (~model.loaded /\ pc[r] # "idle" /\ DeclaredImage(content_type[r]))
            => (pc[r] = "responded" /\ status[r] = 503 /\ ~invoked[r])

C1_Witness ==
    \E r \in Requests :
        ~model.loaded /\ content_type[r] = ImagePng /\ status[r] = 503

\* C2 as stated: every request whose file is declared with a non-image content
\* type is answered with 400, and model.predict is never called for it.
C2_NonImageAlways400 ==
    \A r \in Requests :
        (pc[r] # "idle" /\ DeclaredNonImage(content_type[r]))
            => (pc[r] = "responded" /\ status[r] = 400 /\ ~invoked[r])

\* C2 amended: with the detector loaded, every request whose file is declared
\* with a non-image content type is answered with 400; with the detector not
\* loaded it is answered with 503; in both cases model.predict is never called.
C2_NonImage400WhenLoaded ==
    \A r \in Requests :
        (pc[r] # "idle" /\ DeclaredNonImage(content_type[r]))
            => /\ pc[r] = "responded"
               /\ status[r] = (IF model.loaded THEN 400 ELSE 503)
               /\ ~invoked[r]

C2_Witness ==
    \E r \in Requests :
        model.loaded /\ content_type[r] = TextPlain /\ status[r] = 400

\* C3: a file declared as an image whose bytes cannot be decoded is answered
\* with 400.
C3_Undecodable400 ==
    \A r \in Requests :
        (current = r /\ pc[r] = "responded" /\ DeclaredImage(content_type[r])
         /\ ~image_bytes.decodable)
            => status[r] = 400

\* C4: the image handed to the detector is RGB or RGBA and has the size of the
\* input; RGB and RGBA pass through, P / L / LA become RGBA, any other mode RGB.
C4_NormalizedImage ==
    (current # 0 /\ image_bytes.decodable)
        => /\ img.mode \in {"RGB", "RGBA"}
           /\ img.size = image_bytes.size
           /\ original_mode = image_bytes.mode
           /\ (original_mode \in {"RGB", "RGBA"} => img.mode = original_mode)
           /\ (original_mode \in {"P", "L", "LA"} => img.mode = "RGBA")
           /\ (original_mode \notin {"RGB", "RGBA", "P", "L", "LA"} => img.mode = "RGB")

C4_Witness ==
    /\ current # 0 /\ invoked[current]
    /\ image_bytes.mode = "L" /\ img.mode = "RGBA" /\ img.size = <<64, 48>>

\* C5: the class name of every record follows the three tiers: a non-empty
\* detector catalog decides alone (its entry, or ID_<id> when it has none); an
\* empty catalog gives the configured list's entry for a valid index, and
\* ID_<id> otherwise.
C5_ClassNameTiers ==
    \A i \in 1..Len(predictions_data) :
        LET p == predictions_data[i]
            names == model.names
            synthetic == "ID_" \o ToString(p.class_id)
        IN /\ p.class_id = Boxes[i].cls
           /\ (names # EmptyNames /\ p.class_id \in DOMAIN names
                  => p.class_name = names[p.class_id])
           /\ (names # EmptyNames /\ p.class_id \notin DOMAIN names
                  => p.class_name = synthetic)
           /\ (names = EmptyNames /\ p.class_id \in {0, 1}
                  => p.class_name = CLASS_NAMES_CONFIG[p.class_id + 1])
           /\ (names = EmptyNames /\ p.class_id \notin {0, 1}
                  => p.class_name = synthetic)

C5_Witness ==
    /\ model.names # EmptyNames
    /\ \E i \in 1..Len(predictions_data) :
          predictions_data[i].class_id = 1 /\ predictions_data[i].class_name = "ID_1"

\* C6: every record in a response's predictions has 0 <= x1 < x2 <= width,
\* 0 <= y1 < y2 <= height and a confidence between 0 and 1.
C6_RecordsWellFormed ==
    (current # 0 /\ status[current] = 200)
        => \A i \in 1..Len(predictions_data) :
              LET p == predictions_data[i]
              IN /\ 0 <= p.bbox[1] /\ p.bbox[1] < p.bbox[3] /\ p.bbox[3] <= img.size[1]
                 /\ 0 <= p.bbox[2] /\ p.bbox[2] < p.bbox[4] /\ p.bbox[4] <= img.size[2]
                 /\ 0 <= p.confidence /\ p.confidence <= 100

\* C7: once a font is resolved (whichever of the three), every detection at
\* every box position is annotated whatever text-sizing tier is taken, and the
\* request ends in 200, never in 500.
C7_RenderingNeverFails ==
    \A r \in Requests :
        (current = r /\ pc[r] = "responded" /\ font # NoFont)
            => (status[r] = 200 /\ Len(Annotations) = Len(Boxes))

\* C8: while one request is in its synchronous detection / rendering phase,
\* every other request waiting on its body read can be resumed.
C8_OthersProgress ==
    \A r, s \in Requests :
        (r # s /\ busy /\ current = r /\ pc[s] = "reading") => ENABLED ReadDone(s)

\* C9 as stated: one of the configured classes is the primary one, its records
\* are drawn in one colour and all other records in a second, different one.
C9_ColourByClass ==
    \E primary \in {"text", "metal"} :
        \E c1, c2 \in {"red", "lime", "blue", "white"} :
            /\ c1 # c2
            /\ \A i \in 1..Len(Annotations) :
                  LET c == IF predictions_data[i].class_name = primary THEN c1 ELSE c2
                  IN Annotations[i].outline = c /\ Annotations[i].label_fill = c

\* C9 amended: every box outline and every label background is red whatever
\* the class, and the label text is always white.
C9_OneColour ==
    \A i \in 1..Len(Annotations) :
        /\ Annotations[i].outline = "red"
        /\ Annotations[i].label_fill = "red"
        /\ Annotations[i].text_fill = "white"

C9_Witness ==
    \E i, j \in 1..Len(Annotations) :
        /\ predictions_data[i].class_name = "text"
        /\ predictions_data[j].class_name = "metal"
        /\ Annotations[i].outline = Annotations[j].outline

\* confidence * 100 rounded to the nearest integer
NearestPercentage(k) == IF k % 10 >= 5 THEN k \div 10 + 1 ELSE k \div 10

\* C10: the label drawn for a box is "<class_name> <p>%" with p the confidence
\* times 100 rounded to the nearest integer.
C10_LabelRoundsToNearest ==
    \A i \in 1..Len(Annotations) :
        Annotations[i].text
            = predictions_data[i].class_name \o " "
                \o ToString(NearestPercentage(Boxes[i].conf)) \o "%"
====
